---- MODULE Spec2Model ----
(***************************************************************************)
(* Model of c2nes/ramsey: extend_graph.c (extension search for a 2-edge-   *)
(* coloured complete graph) and the clique enumerator it shares with       *)
(* find_cliques.c.                                                         *)
(*                                                                         *)
(* C arrays are functions over 0..len-1, pointers into perm_block are      *)
(* indices of perm_block, the null pointer is NULL.  The three #defines    *)
(* ADJ_MATRIX_ORDER, CLIQUE_N and PERM_BLOCK_SIZE are fixed in the initial *)
(* state of a behaviour and never change; the literals 4 and 5 that main   *)
(* uses for a candidate's layout are CLIQUE_N - 1 and CLIQUE_N.            *)
(***************************************************************************)
EXTENDS Integers, Sequences, FiniteSets, TLC

VARIABLES
    ADJ_MATRIX_ORDER,   \* #define ADJ_MATRIX_ORDER: order of the loaded matrix
    CLIQUE_N,           \* #define CLIQUE_N: size of the cliques to avoid
    PERM_BLOCK_SIZE,    \* #define PERM_BLOCK_SIZE: width of the filtered prefix
    pc,                 \* position in main (or in the harness of a component)
    base,               \* the matrix as load_matrix returned it (never written)
    matrix,             \* main's matrix: matrix[i][j], i, j in 0..order-1
    order,              \* main's order
    current_clique,     \* find_monochromatic_n_cliques: current_clique[0..n]
    four_cliques,       \* cliques found so far, in the order found
    five_cliques,       \* candidates: members, new vertex, colour
    four_clique_count,  \* main's four_clique_count
    perm_block,         \* arena of Perm nodes
    perm_head,          \* first live node or NULL
    perm_count,         \* number of live nodes
    perm_reset_head,    \* main line 651
    fi, fj,             \* loop variables i and j of the filtering loops
    perm_filtered,      \* the snapshot array (perm_filtered_start .. _end)
    cursor,             \* offset of the pointer perm_filtered from _start
    monochromatic,      \* main's monochromatic flag
    out,                \* what main reported: "none", "found", "exhausted"
    printed,            \* the rows dump_graph printed, << >> if none
    visited,            \* history: the tuples the enumerator has visited
    applied,            \* history: indices of the candidates given to perm_mask
    produced,           \* history: what each next_graph call that returned
                        \* true wrote to the row, and the offset it read
    reference           \* history: the values one sequential pass and the
                        \* stride-32 batching leave, taken when the
                        \* candidates are derived

vars == <<ADJ_MATRIX_ORDER, CLIQUE_N, PERM_BLOCK_SIZE, pc, base, matrix, order,
          current_clique, four_cliques, five_cliques, four_clique_count,
          perm_block, perm_head, perm_count, perm_reset_head, fi, fj,
          perm_filtered, cursor, monochromatic, out, printed, visited,
          applied, produced, reference>>

(***************************************************************************)
(* Bounds of the model.                                                    *)
(***************************************************************************)
MaxN == 4          \* largest base order of a whole run
MaxK == 4          \* largest clique size of a whole run
MaxB == 3          \* largest prefix width
MaxEnumN == 6      \* largest order for the enumerator on its own
MaxFilterN == 3    \* largest base order when passes run in any order
MaxOobReads == 2   \* reads past the snapshot that are followed

NULL == -1
BLOCKY == 32

(***************************************************************************)
(* Bit operations on non-negative integers.                                *)
(***************************************************************************)
RECURSIVE Pow2(_)
Pow2(k) == IF k = 0 THEN 1 ELSE 2 * Pow2(k - 1)

RECURSIVE BitAnd(_, _)
BitAnd(a, b) ==
    IF a = 0 \/ b = 0 THEN 0
    ELSE (a % 2) * (b % 2) + 2 * BitAnd(a \div 2, b \div 2)

RECURSIVE BitXor(_, _)
BitXor(a, b) ==
    IF a = 0 THEN b
    ELSE IF b = 0 THEN a
    ELSE ((a + b) % 2) + 2 * BitXor(a \div 2, b \div 2)

RECURSIVE BitOr(_, _)
BitOr(a, b) ==
    IF a = 0 THEN b
    ELSE IF b = 0 THEN a
    ELSE (IF a % 2 = 1 \/ b % 2 = 1 THEN 1 ELSE 0) + 2 * BitOr(a \div 2, b \div 2)

ShiftRight(p, i) == p \div Pow2(i)

(***************************************************************************)
(* next_n_clique: advance the rightmost marker that can move, then put the *)
(* markers right of it immediately after it.  clique[size] is the sentinel.*)
(***************************************************************************)
RECURSIVE MoveMarkers(_, _, _)
MoveMarkers(clique, j, size) ==
    IF j < size
    THEN MoveMarkers([clique EXCEPT ![j] = clique[j - 1] + 1], j + 1, size)
    ELSE clique

RECURSIVE NextFrom(_, _, _)
NextFrom(clique, i, size) ==
    IF i < 0 THEN [ok |-> FALSE, clique |-> clique]
    ELSE IF clique[i] < clique[i + 1] - 1
         THEN [ok |-> TRUE,
               clique |-> MoveMarkers([clique EXCEPT ![i] = clique[i] + 1],
                                      i + 1, size)]
         ELSE NextFrom(clique, i - 1, size)

\* a next_n_clique that moves a marker and leaves the markers right of it
RECURSIVE NextFromNoReset(_, _, _)
NextFromNoReset(clique, i, size) ==
    IF i < 0 THEN [ok |-> FALSE, clique |-> clique]
    ELSE IF clique[i] < clique[i + 1] - 1
         THEN [ok |-> TRUE, clique |-> [clique EXCEPT ![i] = clique[i] + 1]]
         ELSE NextFromNoReset(clique, i - 1, size)

next_n_clique_noreset(clique, size) == NextFromNoReset(clique, size - 1, size)

next_n_clique(clique, size) == NextFrom(clique, size - 1, size)

(***************************************************************************)
(* is_n_monochromatic: every edge of the tuple, read in the row of its     *)
(* smaller member, has the colour of the edge between the first two.       *)
(***************************************************************************)
\* an is_n_monochromatic that looks at the first member's edges only
is_n_monochromatic_firstrow(clique, n, m) ==
    LET cc == m[clique[0]][clique[1]]
    IN \A j \in 1..(n - 1) : m[clique[0]][clique[j]] = cc

is_n_monochromatic(clique, n, m) ==
    LET cc == m[clique[0]][clique[1]]
    IN \A i \in 0..(n - 1) : \A j \in (i + 1)..(n - 1) :
          m[clique[i]][clique[j]] = cc

FirstClique(n, ord) == [i \in 0..n |-> IF i = n THEN ord ELSE i]

Members(clique, n) == [i \in 0..(n - 1) |-> clique[i]]

(***************************************************************************)
(* The permutation list.  A list state is [block, head, count]: the arena, *)
(* perm_head and perm_count.                                               *)
(***************************************************************************)
perm_alloc(B) ==
    [i \in 0..(Pow2(B) - 1) |-> [perm |-> i, prev |-> NULL, next |-> NULL]]

perm_init(block, B) ==
    [block |-> [i \in DOMAIN block |->
                   [perm |-> block[i].perm,
                    prev |-> IF i = 0 THEN NULL ELSE i - 1,
                    next |-> IF i = Pow2(B) - 1 THEN NULL ELSE i + 1]],
     head  |-> 0,
     count |-> Pow2(B)]

perm_remove(st, p) ==
    LET nd == st.block[p]
        b1 == IF nd.prev # NULL
              THEN [st.block EXCEPT ![nd.prev].next = nd.next]
              ELSE st.block
        h1 == IF nd.prev # NULL THEN st.head ELSE nd.next
        b2 == IF nd.next # NULL
              THEN [b1 EXCEPT ![nd.next].prev = nd.prev]
              ELSE b1
    IN [block |-> [b2 EXCEPT ![p].next = NULL, ![p].prev = NULL],
        head  |-> h1,
        count |-> st.count - 1]

\* ((perm ^ x_mask) & mask) == mask
MaskTest(perm, x_mask, mask) == BitAnd(BitXor(perm, x_mask), mask) = mask

RECURSIVE SkipToMatch(_, _, _, _)
SkipToMatch(block, p, x_mask, mask) ==
    IF p # NULL /\ ~MaskTest(block[p].perm, x_mask, mask)
    THEN SkipToMatch(block, block[p].next, x_mask, mask)
    ELSE p

\* a next_perm_with_mask with the colour test of x_mask the wrong way round
next_perm_with_mask_flipped(block, p, mask, cc) ==
    LET x_mask == IF cc # 0 THEN mask ELSE 0
    IN SkipToMatch(block, block[p].next, x_mask, mask)

next_perm_with_mask(block, p, mask, cc) ==
    LET x_mask == IF cc # 0 THEN 0 ELSE mask
    IN SkipToMatch(block, block[p].next, x_mask, mask)

\* the mask loop of perm_mask (lines 382-388): NULL stands for the early return
RECURSIVE CliqueMask(_, _, _, _, _)
CliqueMask(clique, i, K, B, mask) ==
    IF i >= K - 1 THEN mask
    ELSE IF clique[i] > B THEN NULL
    ELSE CliqueMask(clique, i + 1, K, B, BitOr(mask, Pow2(clique[i])))

\* the removal loop of perm_mask (lines 404-414)
RECURSIVE RemoveLoop(_, _, _, _, _)
RemoveLoop(st, p, x_mask, mask, cc) ==
    IF p = NULL THEN st
    ELSE LET live == \/ st.block[p].next # NULL
                     \/ st.block[p].prev # NULL
                     \/ p = st.head
             st1  == IF live THEN perm_remove(st, p) ELSE st
             p1   == IF live THEN st.block[p].next ELSE p
             p2   == IF p1 # NULL /\ ~MaskTest(st1.block[p1].perm, x_mask, mask)
                     THEN next_perm_with_mask(st1.block, p1, mask, cc)
                     ELSE p1
         IN RemoveLoop(st1, p2, x_mask, mask, cc)

\* perm_mask: the list state after the call, and the value returned
perm_mask(st, clique, K, B) ==
    LET cc     == clique[K]
        mask   == CliqueMask(clique, 0, K, B, 0)
        x_mask == IF cc = 0 THEN mask ELSE 0
        p0     == st.head
        p1     == IF ~MaskTest(st.block[p0].perm, x_mask, mask)
                  THEN next_perm_with_mask(st.block, p0, mask, cc)
                  ELSE p0
    IN IF mask = NULL \/ p0 = NULL
       THEN [st |-> st, ret |-> FALSE]
       ELSE [st |-> RemoveLoop(st, p1, x_mask, mask, cc), ret |-> TRUE]

\* an iteration of perm_regroup's loop that copies the links of the node but
\* not its value
RegroupStep_linksonly(st, p, j) ==
    LET b0 == [st.block EXCEPT ![j].next = st.block[p].next,
                               ![j].prev = st.block[p].prev]
        nd == b0[j]
        b1 == IF nd.next # NULL
              THEN [b0 EXCEPT ![nd.next].prev = j]
              ELSE b0
        b2 == IF nd.prev # NULL
              THEN [b1 EXCEPT ![nd.prev].next = j]
              ELSE b1
        h1 == IF nd.prev # NULL THEN st.head ELSE j
    IN [block |-> b2, head |-> h1, count |-> st.count]

\* one iteration of perm_regroup's loop (lines 424-433): node p is copied to
\* slot j and its neighbours (and perm_head) are pointed at the copy
RegroupStep(st, p, j) ==
    LET b0 == [st.block EXCEPT ![j] = st.block[p]]
        nd == b0[j]
        b1 == IF nd.next # NULL
              THEN [b0 EXCEPT ![nd.next].prev = j]
              ELSE b0
        b2 == IF nd.prev # NULL
              THEN [b1 EXCEPT ![nd.prev].next = j]
              ELSE b1
        h1 == IF nd.prev # NULL THEN st.head ELSE j
    IN [block |-> b2, head |-> h1, count |-> st.count]

\* perm_regroup: copy the live nodes, in list order, to the front of the arena
RECURSIVE RegroupLoop(_, _, _)
RegroupLoop(st, p, j) ==
    IF p = NULL THEN st
    ELSE LET s1 == RegroupStep(st, p, j)
         IN RegroupLoop(s1, s1.block[j].next, j + 1)

perm_regroup(st) == RegroupLoop(st, st.head, 0)

\* the nodes reached from p by next links, in order
RECURSIVE WalkNodes(_, _)
WalkNodes(block, p) ==
    IF p = NULL THEN << >> ELSE <<p>> \o WalkNodes(block, block[p].next)

\* the slots perm_regroup's memcpy writes while they hold a live node that
\* has not been copied yet (a node after p in the list)
RECURSIVE RegroupClobbers(_, _, _)
RegroupClobbers(st, p, j) ==
    IF p = NULL THEN {}
    ELSE LET s1   == RegroupStep(st, p, j)
             rest == WalkNodes(st.block, st.block[p].next)
         IN (IF \E k \in 1..Len(rest) : rest[k] = j THEN {j} ELSE {})
               \cup RegroupClobbers(s1, s1.block[j].next, j + 1)

\* the values reached from p by next links, in order (main lines 656-662)
RECURSIVE Walk(_, _)
Walk(block, p) ==
    IF p = NULL THEN << >> ELSE <<block[p].perm>> \o Walk(block, block[p].next)

ListState == [block |-> perm_block, head |-> perm_head, count |-> perm_count]

Survivors == Walk(perm_block, perm_head)

Range(s) == {s[i] : i \in DOMAIN s}

(***************************************************************************)
(* The matrix.                                                             *)
(***************************************************************************)
Edges(N) == {e \in (0..(N - 1)) \X (0..(N - 1)) : e[1] < e[2]}

\* the matrices load_matrix can return that are symmetric (diagonal 0:
\* no function reads a diagonal entry of the loaded matrix)
load_matrix(N) ==
    {[i \in 0..(N - 1) |-> [j \in 0..(N - 1) |->
         IF i = j THEN 0 ELSE IF i < j THEN f[<<i, j>>] ELSE f[<<j, i>>]]] :
     f \in [Edges(N) -> {0, 1}]}

expand(m, n) ==
    [i \in 0..n |-> [j \in 0..n |-> IF i < n /\ j < n THEN m[i][j] ELSE 0]]

dump_graph(m, ord) ==
    [i \in 1..ord |-> [j \in 1..ord |-> m[i - 1][j - 1]]]

(***************************************************************************)
(* The search loop's functions.                                            *)
(***************************************************************************)
\* is_monochromatic: only the new edges, read in the new vertex's row
is_monochromatic(clique, m, K) ==
    LET cc  == clique[K]
        row == m[clique[K - 1]]
    IN \A i \in 0..(K - 2) : row[clique[i]] = cc

\* next_graph lines 184-187: clear the set bits from i upwards
RECURSIVE Carry(_, _, _)
Carry(row, i, last) ==
    IF row[i] # 0 /\ i # last
    THEN Carry([row EXCEPT ![i] = 0], i + 1, last)
    ELSE [row |-> row, i |-> i]

\* next_graph lines 205-207
WritePrefix(row, p, B) ==
    [i \in DOMAIN row |-> IF i < B THEN ShiftRight(p, i) % 2 ELSE row[i]]

\* what *perm_filtered can yield at offset cur: past the end of the array the
\* read is undefined and any bit pattern may come back
Deref(snapshot, cur, B) ==
    IF cur < Len(snapshot) THEN {snapshot[cur + 1]} ELSE 0..(Pow2(B) - 1)

\* next_graph: the possible results [ret, row, cur] of one call
next_graph(row, ord, snapshot, cur, end, B) ==
    LET c    == Carry(row, B, ord - 1)
        adv  == cur = end
        row1 == IF adv THEN [c.row EXCEPT ![c.i] = 1] ELSE row
        cur1 == IF adv THEN 0 ELSE cur
    IN IF adv /\ c.i = ord - 1
       THEN {[ret |-> FALSE, row |-> c.row, cur |-> cur]}
       ELSE {[ret |-> TRUE, row |-> WritePrefix(row1, p, B), cur |-> cur1 + 1] :
             p \in Deref(snapshot, cur1, B)}

(***************************************************************************)
(* Initial states.                                                         *)
(***************************************************************************)
Start(N, K, B, m, where) ==
    /\ ADJ_MATRIX_ORDER = N
    /\ CLIQUE_N = K
    /\ PERM_BLOCK_SIZE = B
    /\ pc = where
    /\ base = m
    /\ matrix = m
    /\ order = N
    /\ current_clique = FirstClique(K - 1, N)
    /\ four_cliques = << >>
    /\ five_cliques = << >>
    /\ four_clique_count = 0
    /\ perm_block = perm_init(perm_alloc(B), B).block
    /\ perm_head = perm_init(perm_alloc(B), B).head
    /\ perm_count = perm_init(perm_alloc(B), B).count
    /\ perm_reset_head = NULL
    /\ fi = 0
    /\ fj = 0
    /\ perm_filtered = << >>
    /\ cursor = 0
    /\ monochromatic = TRUE
    /\ out = "none"
    /\ printed = << >>
    /\ visited = <<Members(FirstClique(K - 1, N), K - 1)>>
    /\ applied = {}
    /\ produced = << >>
    /\ reference = [seq |-> {}, stride |-> {}]

\* main up to the first iteration of find_monochromatic_n_cliques
Init ==
    \E N \in 3..MaxN, K \in 3..MaxK, B \in 1..MaxB :
        /\ K - 1 <= N
        /\ B <= N
        /\ \E m \in load_matrix(N) : Start(N, K, B, m, "find")

(***************************************************************************)
(* main, one action per loop iteration or straight-line stretch.           *)
(***************************************************************************)
\* one iteration of the do-while of find_monochromatic_n_cliques
FindStep ==
    /\ pc = "find"
    /\ LET n    == CLIQUE_N - 1
           mono == is_n_monochromatic(current_clique, n, matrix)
           r    == next_n_clique(current_clique, n)
       IN /\ four_cliques' = IF mono
                             THEN Append(four_cliques, Members(current_clique, n))
                             ELSE four_cliques
          /\ four_clique_count' = IF mono
                                  THEN (four_clique_count + 1) % 65536
                                  ELSE four_clique_count
          /\ current_clique' = r.clique
          /\ visited' = IF r.ok THEN Append(visited, Members(r.clique, n))
                        ELSE visited
          /\ pc' = IF r.ok THEN "find" ELSE "derive"
    /\ UNCHANGED <<ADJ_MATRIX_ORDER, CLIQUE_N, PERM_BLOCK_SIZE, base, matrix,
                   order, five_cliques, perm_block, perm_head, perm_count,
                   perm_reset_head, fi, fj, perm_filtered, cursor,
                   monochromatic, out, printed, applied, produced,
                   reference>>

\* main lines 587-604: the candidates, then expand
Candidate(clique, m, ord, K) ==
    [k \in 0..(K + 1) |->
        IF k < K - 1 THEN clique[k]
        ELSE IF k = K - 1 THEN ord
        ELSE IF k = K THEN m[clique[0]][clique[1]]
        ELSE 0]

\* one sequential pass: perm_mask for candidates i, i+1, ... without regroup
RECURSIVE SequentialPass(_, _, _)
SequentialPass(st, cliques, i) ==
    IF i >= four_clique_count THEN st
    ELSE SequentialPass(perm_mask(st, cliques[i], CLIQUE_N,
                                  PERM_BLOCK_SIZE).st, cliques, i + 1)

\* the batching of main lines 638-646 from batch j, candidate i
RECURSIVE StridePass(_, _, _, _)
StridePass(st, cliques, j, i) ==
    IF j >= BLOCKY THEN st
    ELSE LET inner == i < four_clique_count
             st1   == IF inner
                      THEN perm_mask(st, cliques[i], CLIQUE_N,
                                     PERM_BLOCK_SIZE).st
                      ELSE perm_regroup(st)
         IN IF st1.count < 0 THEN st1
            ELSE IF inner THEN StridePass(st1, cliques, j, i + BLOCKY)
            ELSE StridePass(st1, cliques, j + 1, j + 1)

FreshList == perm_init(perm_alloc(PERM_BLOCK_SIZE), PERM_BLOCK_SIZE)

ValuesOf(st) == Range(Walk(st.block, st.head))

\* main lines 587-604 as one step, the history variable reference apart
DeriveBody ==
    /\ pc = "derive"
    /\ five_cliques' = [i \in 0..(four_clique_count - 1) |->
                           Candidate(four_cliques[i + 1], matrix, order, CLIQUE_N)]
    /\ matrix' = expand(matrix, order)
    /\ order' = order + 1
    /\ fi' = 0
    /\ fj' = 0
    /\ pc' = "filter"
    /\ UNCHANGED <<ADJ_MATRIX_ORDER, CLIQUE_N, PERM_BLOCK_SIZE, base,
                   current_clique, four_cliques, four_clique_count, perm_block,
                   perm_head, perm_count, perm_reset_head, perm_filtered,
                   cursor, monochromatic, out, printed, visited, applied, produced>>

Derive ==
    /\ DeriveBody
    /\ UNCHANGED reference

\* the same step, taking reference from the candidates just derived
DeriveReference ==
    /\ DeriveBody
    /\ reference' = [seq    |-> ValuesOf(SequentialPass(FreshList, five_cliques', 0)),
                     stride |-> ValuesOf(StridePass(FreshList, five_cliques', 0, 0))]

SetList(st) ==
    /\ perm_block' = st.block
    /\ perm_head' = st.head
    /\ perm_count' = st.count

\* main lines 639-643: one iteration of the inner filtering loop
FilterMask ==
    /\ pc = "filter"
    /\ fi < four_clique_count
    /\ SetList(perm_mask(ListState, five_cliques[fi], CLIQUE_N, PERM_BLOCK_SIZE).st)
    /\ applied' = applied \cup {fi}
    /\ fi' = fi + BLOCKY
    /\ UNCHANGED <<ADJ_MATRIX_ORDER, CLIQUE_N, PERM_BLOCK_SIZE, pc, base, matrix,
                   order, current_clique, four_cliques, five_cliques,
                   four_clique_count, perm_reset_head, fj, perm_filtered,
                   cursor, monochromatic, out, printed, visited, produced,
                   reference>>

\* main lines 644-646 and the outer loop's step
FilterRegroup ==
    /\ pc = "filter"
    /\ fi >= four_clique_count
    /\ SetList(perm_regroup(ListState))
    /\ fj' = fj + 1
    /\ fi' = fj + 1
    /\ pc' = IF fj + 1 < BLOCKY THEN "filter" ELSE "filtered"
    /\ UNCHANGED <<ADJ_MATRIX_ORDER, CLIQUE_N, PERM_BLOCK_SIZE, base, matrix,
                   order, current_clique, four_cliques, five_cliques,
                   four_clique_count, perm_reset_head, perm_filtered,
                   cursor, monochromatic, out, printed, visited, applied, produced,
                   reference>>

\* main lines 648-652: the report, then exit(0)
Exit0 ==
    /\ pc = "filtered"
    /\ perm_reset_head' = perm_head
    /\ pc' = "exit"
    /\ UNCHANGED <<ADJ_MATRIX_ORDER, CLIQUE_N, PERM_BLOCK_SIZE, base, matrix,
                   order, current_clique, four_cliques, five_cliques,
                   four_clique_count, perm_block, perm_head, perm_count, fi, fj,
                   perm_filtered, cursor, monochromatic, out, printed, visited,
                   applied, produced,
                   reference>>

Next == FindStep \/ Derive \/ FilterMask \/ FilterRegroup \/ Exit0

Spec == Init /\ [][Next]_vars

(***************************************************************************)
(* The enumerator on its own: next_n_clique called until it returns false, *)
(* for any order N and size n with N >= n >= 1 (CLIQUE_N - 1 is n).        *)
(***************************************************************************)
ZeroMatrix(N) == [i \in 0..(N - 1) |-> [j \in 0..(N - 1) |-> 0]]

EnumInit ==
    \E N \in 1..MaxEnumN : \E n \in 1..N :
        Start(N, n + 1, 1, ZeroMatrix(N), "enum")

EnumNext ==
    /\ pc = "enum"
    /\ LET r == next_n_clique(current_clique, CLIQUE_N - 1)
       IN /\ current_clique' = r.clique
          /\ visited' = IF r.ok
                        THEN Append(visited, Members(r.clique, CLIQUE_N - 1))
                        ELSE visited
          /\ pc' = IF r.ok THEN "enum" ELSE "enum_done"
    /\ UNCHANGED <<ADJ_MATRIX_ORDER, CLIQUE_N, PERM_BLOCK_SIZE, base, matrix,
                   order, four_cliques, five_cliques, four_clique_count,
                   perm_block, perm_head, perm_count, perm_reset_head, fi, fj,
                   perm_filtered, cursor, monochromatic, out, printed, applied, produced,
                   reference>>

EnumSpec == EnumInit /\ [][EnumNext]_vars

(***************************************************************************)
(* Vocabulary of the properties.                                           *)
(***************************************************************************)
RECURSIVE Binomial(_, _)
Binomial(N, n) ==
    IF n = 0 \/ n = N THEN 1
    ELSE IF n > N THEN 0
    ELSE Binomial(N - 1, n - 1) + Binomial(N - 1, n)

IncreasingTuple(t, n, N) ==
    /\ DOMAIN t = 0..(n - 1)
    /\ \A i \in 0..(n - 1) : t[i] \in 0..(N - 1)
    /\ \A i \in 1..(n - 1) : t[i - 1] < t[i]

LexLess(a, b, n) ==
    \E k \in 0..(n - 1) :
        /\ \A l \in 0..(k - 1) : a[l] = b[l]
        /\ a[k] < b[k]

LexIncreasing(sq, n) ==
    \A i \in 1..(Len(sq) - 1) : LexLess(sq[i], sq[i + 1], n)

TupleSet(t) == {t[i] : i \in DOMAIN t}

\* every edge inside S has colour c in m, read in both directions
OneColour(S, m, c) == \A u \in S : \A v \in S : u # v => m[u][v] = c

MonoSet(S, m) == \E c \in {0, 1} : OneColour(S, m, c)

SubsetsOfSize(N, n) == {S \in SUBSET (0..(N - 1)) : Cardinality(S) = n}

(***************************************************************************)
(* C4.  From (0,1,...,n-1) with sentinel N, the calls of next_n_clique     *)
(* until it returns false visit strictly increasing n-tuples over [0,N) in *)
(* strictly increasing lexicographic order (so none twice), and when it    *)
(* returns false exactly C(N,n) tuples have been visited.                  *)
(***************************************************************************)
C4_EnumerationComplete ==
    pc \in {"enum", "enum_done"} =>
        LET n == CLIQUE_N - 1
            N == ADJ_MATRIX_ORDER
        IN /\ \A i \in 1..Len(visited) : IncreasingTuple(visited[i], n, N)
           /\ LexIncreasing(visited, n)
           /\ visited[1] = [i \in 0..(n - 1) |-> i]
           /\ pc = "enum_done" => Len(visited) = Binomial(N, n)

C4_Witness ==
    /\ pc = "enum_done"
    /\ ADJ_MATRIX_ORDER = 5
    /\ CLIQUE_N - 1 = 3
    /\ Len(visited) = 10

Snapshot ==
    /\ pc = "filtered"
    /\ perm_reset_head' = perm_head
    /\ perm_filtered' = Walk(perm_block, perm_head)
    /\ cursor' = 0
    /\ pc' = "search"
    /\ UNCHANGED <<ADJ_MATRIX_ORDER, CLIQUE_N, PERM_BLOCK_SIZE, base, matrix,
                   order, current_clique, four_cliques, five_cliques,
                   four_clique_count, perm_block, perm_head, perm_count, fi, fj,
                   monochromatic, out, printed, visited, applied, produced,
                   reference>>

\* main lines 692-696: the flag after the candidates have been checked
CheckCliques(m, flag) ==
    IF four_clique_count = 0 THEN flag
    ELSE \E i \in 0..(four_clique_count - 1) :
             is_monochromatic(five_cliques[i], m, CLIQUE_N)

\* one iteration of while(true), main lines 668-716
SearchStep ==
    /\ pc = "search"
    /\ cursor <= perm_count + MaxOobReads
    /\ \E g \in next_graph(matrix[order - 1], order, perm_filtered, cursor,
                           perm_count, PERM_BLOCK_SIZE) :
          LET m1 == [matrix EXCEPT ![order - 1] = g.row]
              fl == CheckCliques(m1, monochromatic)
          IN /\ matrix' = m1
             /\ cursor' = g.cur
             /\ produced' = IF g.ret
                            THEN Append(produced, [row |-> g.row, at |-> g.cur - 1])
                            ELSE produced
             /\ IF ~g.ret
                THEN /\ out' = "exhausted"
                     /\ pc' = "done"
                     /\ UNCHANGED <<monochromatic, printed>>
                ELSE /\ monochromatic' = fl
                     /\ IF fl = FALSE
                        THEN /\ out' = "found"
                             /\ printed' = dump_graph(m1, order)
                             /\ pc' = "done"
                        ELSE UNCHANGED <<out, printed, pc>>
    /\ UNCHANGED <<ADJ_MATRIX_ORDER, CLIQUE_N, PERM_BLOCK_SIZE, base, order,
                   current_clique, four_cliques, five_cliques,
                   four_clique_count, perm_block, perm_head, perm_count,
                   perm_reset_head, fi, fj, perm_filtered, visited, applied,
                   reference>>

SearchNext ==
    FindStep \/ Derive \/ FilterMask \/ FilterRegroup \/ Snapshot \/ SearchStep

SearchSpec == Init /\ [][SearchNext]_vars

(***************************************************************************)
(* More vocabulary: the printed matrix read back, brute force over every   *)
(* K-subset with the repository's own test, colourings of the new edges.   *)
(***************************************************************************)
ReadBack(rows) ==
    [i \in 0..(Len(rows) - 1) |-> [j \in 0..(Len(rows) - 1) |-> rows[i + 1][j + 1]]]

IncreasingTuples(N, n) ==
    {t \in [0..(n - 1) -> 0..(N - 1)] : \A i \in 1..(n - 1) : t[i - 1] < t[i]}

\* the K-subsets of m that is_n_monochromatic reports
BruteForce(m, ord, K) ==
    {t \in IncreasingTuples(ord, K) : is_n_monochromatic(t, K, m)}

BaseHasNoClique == \A S \in SubsetsOfSize(ADJ_MATRIX_ORDER, CLIQUE_N) : ~MonoSet(S, base)

Bit(v, i) == ShiftRight(v, i) % 2

\* colouring c of the new vertex's edges gives candidate cl one colour
Completes(c, cl) == \A k \in 0..(CLIQUE_N - 2) : c[cl[k]] = cl[CLIQUE_N]

\* prefix value v has all member bits of candidate cl equal to cl's colour
PrefixCompletes(v, cl) == \A k \in 0..(CLIQUE_N - 2) : Bit(v, cl[k]) = cl[CLIQUE_N]

Confined(cl) == \A k \in 0..(CLIQUE_N - 2) : cl[k] < PERM_BLOCK_SIZE

SurvivorSet == Range(Survivors)

Universe == 0..(Pow2(PERM_BLOCK_SIZE) - 1)

AfterFilter == pc \in {"filtered", "exit", "search", "done"}

C3_FilterExact ==
    AfterFilter =>
        LET conf == {i \in DOMAIN five_cliques : Confined(five_cliques[i])}
        IN /\ \A v \in SurvivorSet : \A i \in conf :
                  ~PrefixCompletes(v, five_cliques[i])
           /\ \A v \in Universe \ SurvivorSet : \E i \in conf :
                  PrefixCompletes(v, five_cliques[i])

C7_EndsWithReport ==
    pc \in {"exit", "done"} => out \in {"found", "exhausted"}

(***************************************************************************)
(* C8.  For N=4, K=3, B=2 and a base matrix all 0 except one edge 1: the   *)
(* survivor set after filtering is non-empty, and the run ends in success  *)
(* with a 5-vertex matrix without a monochromatic triangle.                *)
(***************************************************************************)
OneBlueEdge ==
    Cardinality({e \in Edges(ADJ_MATRIX_ORDER) : base[e[1]][e[2]] = 1}) = 1

C8_Scenario ==
    (ADJ_MATRIX_ORDER = 4 /\ CLIQUE_N = 3 /\ PERM_BLOCK_SIZE = 2 /\ OneBlueEdge) =>
        /\ AfterFilter => SurvivorSet # {}
        /\ pc \in {"exit", "done"} =>
              /\ out = "found"
              /\ BruteForce(ReadBack(printed), 5, 3) = {}

(***************************************************************************)
(* C10.  For a candidate with a member index >= B, perm_mask removes       *)
(* nothing: the list of surviving values and perm_count are unchanged.     *)
(***************************************************************************)
C10_OutsidePrefixNoRemoval ==
    [][(/\ pc = "filter"
        /\ fi < four_clique_count
        /\ ~Confined(five_cliques[fi]))
       => (Survivors' = Survivors /\ perm_count' = perm_count)]_vars

(***************************************************************************)
(* The filtering passes in any order: perm_mask for the candidates in any  *)
(* order, perm_regroup at any point between them.                          *)
(***************************************************************************)
FilterInit ==
    \E N \in 3..MaxFilterN, K \in 3..MaxK, B \in 1..MaxB :
        /\ K - 1 <= N
        /\ B <= N
        /\ \E m \in load_matrix(N) : Start(N, K, B, m, "find")

AnyMask ==
    /\ pc = "filter"
    /\ \E i \in DOMAIN five_cliques \ applied :
          /\ SetList(perm_mask(ListState, five_cliques[i], CLIQUE_N,
                               PERM_BLOCK_SIZE).st)
          /\ applied' = applied \cup {i}
    /\ UNCHANGED <<ADJ_MATRIX_ORDER, CLIQUE_N, PERM_BLOCK_SIZE, pc, base, matrix,
                   order, current_clique, four_cliques, five_cliques,
                   four_clique_count, perm_reset_head, fi, fj, perm_filtered,
                   cursor, monochromatic, out, printed, visited, produced,
                   reference>>

AnyRegroup ==
    /\ pc = "filter"
    /\ SetList(perm_regroup(ListState))
    /\ UNCHANGED <<ADJ_MATRIX_ORDER, CLIQUE_N, PERM_BLOCK_SIZE, pc, base, matrix,
                   order, current_clique, four_cliques, five_cliques,
                   four_clique_count, perm_reset_head, fi, fj, perm_filtered,
                   cursor, monochromatic, out, printed, visited, applied, produced,
                   reference>>

FilterNext == FindStep \/ DeriveReference \/ AnyMask \/ AnyRegroup

FilterSpec == FilterInit /\ [][FilterNext]_vars

(***************************************************************************)
(* C5.  Whatever the order of the candidates and wherever perm_regroup     *)
(* falls between them, once perm_mask has been applied for every candidate *)
(* the surviving set is the one a single sequential pass leaves, which is  *)
(* also the one main's stride-32 batching leaves; and along the way        *)
(* perm_count never increases and no removed value comes back.             *)
(* reference holds the values SequentialPass and StridePass leave on a     *)
(* fresh list for the candidates derived.                                  *)
(***************************************************************************)
C5_OrderIndependent ==
    /\ [](( pc = "filter" /\ applied = DOMAIN five_cliques ) =>
            /\ SurvivorSet = reference.seq
            /\ SurvivorSet = reference.stride
            /\ perm_count = Cardinality(SurvivorSet))
    /\ [][perm_count' <= perm_count /\ SurvivorSet' \subseteq SurvivorSet]_vars

C5_Witness ==
    /\ pc = "filter"
    /\ applied = DOMAIN five_cliques
    /\ Cardinality(applied) >= 2
    /\ perm_count \in 1..(Pow2(PERM_BLOCK_SIZE) - 2)
    /\ perm_block[0].perm # 0

PairCount == Len(perm_filtered) * Pow2(ADJ_MATRIX_ORDER - PERM_BLOCK_SIZE)

PairRow(k) ==
    LET s == (k - 1) \div Len(perm_filtered)
        v == perm_filtered[((k - 1) % Len(perm_filtered)) + 1]
    IN [i \in 0..ADJ_MATRIX_ORDER |->
           IF i < PERM_BLOCK_SIZE THEN Bit(v, i)
           ELSE IF i < ADJ_MATRIX_ORDER THEN Bit(s, i - PERM_BLOCK_SIZE)
           ELSE 0]

WellFormed(st) ==
    LET nodes == WalkNodes(st.block, st.head)
    IN /\ st.head # NULL => st.block[st.head].prev = NULL
       /\ \A k \in 1..(Len(nodes) - 1) :
             /\ st.block[nodes[k]].next = nodes[k + 1]
             /\ st.block[nodes[k + 1]].prev = nodes[k]
       /\ Len(nodes) > 0 => st.block[nodes[Len(nodes)]].next = NULL
       /\ \A k \in 1..Len(nodes) : \A l \in 1..(k - 1) : nodes[k] # nodes[l]
       /\ st.count = Len(nodes)

(***************************************************************************)
(* C14.  perm_regroup has no semantic effect: after any sequence of        *)
(* perm_mask and perm_regroup calls from perm_init, a perm_regroup call    *)
(* leaves the values reached from perm_head (same values, same order) and  *)
(* perm_count unchanged, overwrites no live node that is still to be       *)
(* copied, and leaves a well-formed doubly linked list.                    *)
(***************************************************************************)
C14_RegroupNoEffect ==
    /\ [](pc = "filter" =>
            LET r == perm_regroup(ListState)
            IN /\ WellFormed(ListState)
               /\ Walk(r.block, r.head) = Survivors
               /\ r.count = perm_count
               /\ WellFormed(r)
               /\ RegroupClobbers(ListState, perm_head, 0) = {})
    /\ [][(pc = "filter" /\ pc' = "filter" /\ applied' = applied) =>
             (Survivors' = Survivors /\ perm_count' = perm_count)]_vars

C14_Witness ==
    /\ pc = "filter"
    /\ PERM_BLOCK_SIZE = 3
    /\ perm_count = 3
    /\ perm_head = 0
    /\ perm_block[0].perm # 0
    /\ perm_block[1].prev = 0
    /\ perm_block[2].next = NULL
    /\ perm_block[2].perm > perm_block[1].perm + 1

====
